---------------------------- MODULE Spec2Model ----------------------------
(***************************************************************************)
(* Krypton VM (src/config/end_stup.cpp): a stack bytecode machine with a   *)
(* tracked heap and a mark-and-sweep collector.                            *)
(*                                                                         *)
(* Numbers are C++ doubles in the source.  Every literal used here is a    *)
(* small integer and the only arithmetic the dispatch switch implements is *)
(* ADD, so all values stay small integers, which a double represents       *)
(* exactly and operator<< prints as plain decimal digits.                  *)
(***************************************************************************)
EXTENDS Integers, Sequences, FiniteSets, TLC

VARIABLES
    bytecode,   \* KryptonVM::bytecode, the loaded program
    stack,      \* KryptonVM::stack, a sequence of object addresses
    objects,    \* GarbageCollector::objects, the tracked addresses in order
    heap,       \* the free store: address -> the live GCObject at it
    ip,         \* KryptonVM::ip
    pc,         \* position of the control inside run() ("idle": outside it)
    status,     \* how the last run() call ended ("new": never called)
    error,      \* what() of the last exception that left run(), or "none"
    regB,       \* local b of the OP_ADD case (an address, or NULL)
    regA,       \* local a of the OP_ADD case (an address, or NULL)
    output,     \* lines PRINT wrote to std::cout since run() was entered
    executed,   \* instructions completed since run() was entered
    gcCycles,   \* "[GC] Collection cycle finished." lines since run() was entered
    firstRun    \* the current (or last) run() is the first one on this VM

vars == <<bytecode, stack, objects, heap, ip, pc, status, error, regB, regA,
          output, executed, gcCycles, firstRun>>

-----------------------------------------------------------------------------
(* Bounds of the model *)

\* Every program of at most this many instructions over Alphabet can be loaded.
MaxProgLen == 2

\* Collector-only specification: addresses 1..MaxObjs, at most MaxRoots roots,
\* at most MaxCollects calls of collect.
MaxObjs == 3
MaxRoots == 2
MaxCollects == 2

\* Addresses of the free store, 1..MaxAddr: no loadable program is longer than
\* 10 instructions and one instruction allocates at most one object.
MaxAddr == 10

-----------------------------------------------------------------------------
(* Program constants *)

\* `if (ip % 5 == 0) gc.collect(stack);`
GCInterval == 5

\* nullptr
NULL == 0

-----------------------------------------------------------------------------
(* Instructions *)

OpCode == {"OP_PUSH_NUM", "OP_PUSH_STR", "OP_ADD", "OP_SUB", "OP_MUL", "OP_DIV",
           "OP_PRINT", "OP_JUMP", "OP_JUMP_IF_FALSE", "OP_HALT"}

\* std::variant<double, std::string, int>: the alternative held and its value.
DoubleOperand(v) == [tag |-> "double", num |-> v, str |-> ""]
StringOperand(s) == [tag |-> "string", num |-> 0, str |-> s]
IntOperand(n) == [tag |-> "int", num |-> n, str |-> ""]

Instruction(code, operand) == [code |-> code, operand |-> operand]

\* Assembler::emit(code) stores the operand 0.0.
Emit(code) == Instruction(code, DoubleOperand(0))
EmitNum(code, val) == Instruction(code, DoubleOperand(val))
EmitStr(code, val) == Instruction(code, StringOperand(val))

\* The program main() assembles: (10 + 20) * 2.
MainProgram ==
    << EmitNum("OP_PUSH_NUM", 10), EmitNum("OP_PUSH_NUM", 20), Emit("OP_ADD"),
       EmitNum("OP_PUSH_NUM", 2), Emit("OP_MUL"),
       EmitStr("OP_PUSH_STR", "Hasil Kalkulasi: "), Emit("OP_PRINT"),
       Emit("OP_PRINT"), Emit("OP_HALT") >>


\* Programs of the specification's test scenarios (inputs of the model).
SpecExample ==
    << EmitNum("OP_PUSH_NUM", 10), EmitNum("OP_PUSH_NUM", 20), Emit("OP_ADD"),
       EmitNum("OP_PUSH_NUM", 2), Emit("OP_MUL"), Emit("OP_PRINT"),
       Emit("OP_HALT") >>

ScenarioProgram ==
    << EmitStr("OP_PUSH_STR", "Hasil: "), Emit("OP_PRINT"),
       EmitNum("OP_PUSH_NUM", 10), EmitNum("OP_PUSH_NUM", 20), Emit("OP_ADD"),
       EmitNum("OP_PUSH_NUM", 2), Emit("OP_MUL"), Emit("OP_PRINT"),
       Emit("OP_HALT") >>

\* 10 + 20, printed; HALT is the fifth instruction.
AddProgram ==
    << EmitNum("OP_PUSH_NUM", 10), EmitNum("OP_PUSH_NUM", 20), Emit("OP_ADD"),
       Emit("OP_PRINT"), Emit("OP_HALT") >>

\* Ten instructions: two collections, garbage and survivors at both.
CadenceProgram ==
    << EmitNum("OP_PUSH_NUM", 2), EmitNum("OP_PUSH_NUM", 2), Emit("OP_ADD"),
       EmitStr("OP_PUSH_STR", "s"), Emit("OP_PRINT"),
       EmitNum("OP_PUSH_NUM", 0), Emit("OP_SUB"), Emit("OP_JUMP"),
       Emit("OP_PRINT"), Emit("OP_JUMP_IF_FALSE") >>

\* Operands of the wrong alternative: std::get throws.
BadOperandProgram ==
    << EmitStr("OP_PUSH_NUM", "s"), Emit("OP_PUSH_STR") >>

\* Opcodes with too few operands, a zero divisor, a String operand of ADD,
\* jumps inside and beyond the program.
SubProgram == << EmitNum("OP_PUSH_NUM", 2), Emit("OP_SUB"), Emit("OP_PRINT") >>
JumpIfFalseProgram ==
    << Instruction("OP_JUMP_IF_FALSE", IntOperand(2)),
       EmitNum("OP_PUSH_NUM", 0), Instruction("OP_JUMP_IF_FALSE", IntOperand(0)) >>
DivZeroProgram ==
    << EmitNum("OP_PUSH_NUM", 2), EmitNum("OP_PUSH_NUM", 0), Emit("OP_DIV"),
       Emit("OP_PRINT") >>
StringAddProgram ==
    << EmitStr("OP_PUSH_STR", "s"), EmitNum("OP_PUSH_NUM", 2), Emit("OP_ADD"),
       Emit("OP_PRINT") >>
JumpProgram ==
    << Instruction("OP_JUMP", IntOperand(2)), EmitNum("OP_PUSH_NUM", 2),
       Instruction("OP_JUMP", IntOperand(9)), Emit("OP_HALT") >>

\* Five operands left on the stack by the first collection, then the four
\* instructions before the next one each drop two of them.
OrphanProgram ==
    << EmitNum("OP_PUSH_NUM", 1), EmitNum("OP_PUSH_NUM", 1),
       EmitNum("OP_PUSH_NUM", 1), EmitNum("OP_PUSH_NUM", 1),
       EmitNum("OP_PUSH_NUM", 1), Emit("OP_ADD"), Emit("OP_ADD"),
       Emit("OP_ADD"), Emit("OP_ADD"), Emit("OP_PRINT") >>

NamedPrograms ==
    {MainProgram, SpecExample, ScenarioProgram, AddProgram, CadenceProgram,
     BadOperandProgram, SubProgram, JumpIfFalseProgram, DivZeroProgram,
     StringAddProgram, JumpProgram, OrphanProgram}

\* The instructions of the exhaustively enumerated short programs.
Alphabet ==
    { EmitNum("OP_PUSH_NUM", 2), Emit("OP_ADD"), Emit("OP_PRINT"),
      Emit("OP_HALT") }

Programs ==
    NamedPrograms \cup UNION { [1..k -> Alphabet] : k \in 0..MaxProgLen }


-----------------------------------------------------------------------------
(* Objects *)

\* NumberObj(v) and StringObj(v): GCObject::marked starts false.
NumberObj(v) == [type |-> "NUMBER", num |-> v, str |-> "", marked |-> FALSE]
StringObj(v) == [type |-> "STRING", num |-> 0, str |-> v, marked |-> FALSE]

\* operator new: an address no live object occupies (a freed one may be reused).
Addresses == 1..MaxAddr
NewAddress(h) == CHOOSE a \in Addresses : a \notin DOMAIN h /\
                    \A b \in Addresses : b \notin DOMAIN h => a <= b

Allocate(h, a, obj) == [x \in DOMAIN h \cup {a} |-> IF x = a THEN obj ELSE h[x]]

\* What `static_cast<NumberObj*>(p)->value` can read.  Through a StringObj the
\* cast is invalid and the read is undefined: any double.
GarbageDoubles == {0, 7}
ValueRead(h, p) == IF h[p].type = "NUMBER" THEN {h[p].num} ELSE GarbageDoubles

\* Decimal text of a non-negative integer, as operator<<(double) writes it.
DigitChars == <<"0", "1", "2", "3", "4", "5", "6", "7", "8", "9">>
RECURSIVE Digits(_)
Digits(n) == IF n < 10 THEN <<DigitChars[n + 1]>>
             ELSE Digits(n \div 10) \o <<DigitChars[(n % 10) + 1]>>

\* NumberObj::print / StringObj::print: the chunks written to std::cout.
PrintObj(obj) == IF obj.type = "NUMBER" THEN Digits(obj.num)
                 ELSE <<"\"", obj.str, "\"">>

-----------------------------------------------------------------------------
(* GarbageCollector *)

\* A track that registers nothing.
TrackNothing(objs, obj) == objs

\* A track that registers the object twice.
TrackTwice(objs, obj) == Append(Append(objs, obj), obj)

\* track: objects.push_back(obj)
Track(objs, obj) == Append(objs, obj)

\* A mark loop that stops one root early (i < roots.size() - 1).
MarkRootsButLast(roots, h) ==
    [a \in DOMAIN h |->
        IF \E i \in 1..(Len(roots) - 1) : roots[i] # NULL /\ roots[i] = a
        THEN [h[a] EXCEPT !.marked = TRUE] ELSE h[a]]

\* Mark phase: every non-null root gets marked = true.
MarkRoots(roots, h) ==
    [a \in DOMAIN h |->
        IF \E i \in 1..Len(roots) : roots[i] # NULL /\ roots[i] = a
        THEN [h[a] EXCEPT !.marked = TRUE] ELSE h[a]]

\* objects.erase(it) and `delete *it`.
Erase(objs, it) == SubSeq(objs, 1, it - 1) \o SubSeq(objs, it + 1, Len(objs))
Delete(h, a) == [x \in DOMAIN h \ {a} |-> h[x]]

\* A sweep loop that steps over the element that follows an erased one
\* (`it = objects.erase(it); ++it;`).
RECURSIVE SweepFromSkipping(_, _, _)
SweepFromSkipping(objs, it, h) ==
    IF it > Len(objs) THEN [objects |-> objs, heap |-> h]
    ELSE IF ~h[objs[it]].marked
         THEN SweepFromSkipping(Erase(objs, it), it + 1, Delete(h, objs[it]))
         ELSE SweepFromSkipping(objs, it + 1,
                                [h EXCEPT ![objs[it]].marked = FALSE])

\* A sweep loop that deletes the unmarked objects and erases none of them.
RECURSIVE SweepFromKeeping(_, _, _)
SweepFromKeeping(objs, it, h) ==
    IF it > Len(objs) THEN [objects |-> objs, heap |-> h]
    ELSE IF ~h[objs[it]].marked
         THEN SweepFromKeeping(objs, it + 1, Delete(h, objs[it]))
         ELSE SweepFromKeeping(objs, it + 1,
                               [h EXCEPT ![objs[it]].marked = FALSE])

\* A sweep loop that leaves the survivors marked.
RECURSIVE SweepFromNoReset(_, _, _)
SweepFromNoReset(objs, it, h) ==
    IF it > Len(objs) THEN [objects |-> objs, heap |-> h]
    ELSE IF ~h[objs[it]].marked
         THEN SweepFromNoReset(Erase(objs, it), it, Delete(h, objs[it]))
         ELSE SweepFromNoReset(objs, it + 1, h)

\* Sweep phase: the loop over the tracked addresses, from position `it`
\* (1-based).  An unmarked object is deleted and erased, the iterator then
\* stands on the next one; a marked object is reset and stepped over.
RECURSIVE SweepFrom(_, _, _)
SweepFrom(objs, it, h) ==
    IF it > Len(objs) THEN [objects |-> objs, heap |-> h]
    ELSE IF ~h[objs[it]].marked
         THEN SweepFrom(Erase(objs, it), it, Delete(h, objs[it]))
         ELSE SweepFrom(objs, it + 1, [h EXCEPT ![objs[it]].marked = FALSE])

\* collect(roots): mark phase, then sweep phase from objects.begin().
Collect(roots, objs, h) == SweepFrom(objs, 1, MarkRoots(roots, h))

-----------------------------------------------------------------------------
(* VirtualMemorySystem and its workers (src/config/go_stup.hpp) *)

VARIABLES
    vmsHeap,      \* VirtualMemorySystem::heap, the blocks in vector order
    systemMutex,  \* the thread that holds systemMutex, or "NONE"
    usedMemory,   \* VirtualMemorySystem::usedMemory
    running,      \* WorkerNode::running of each worker
    wpc,          \* position of each worker thread in process()
    frame         \* locals of the allocate/deallocate call of each worker

vmsVars == <<vmsHeap, systemMutex, usedMemory, running, wpc, frame>>

\* Capacity of the system (globalVMS(1000) in main) and the largest request
\* (dist(50, 200) in process), scaled down: three largest requests exceed the
\* capacity, and one smallest request fits a block split off by another.
VMSCapacity == 4
MaxTaskSize == 2

totalCapacity == VMSCapacity
TaskSizes == 1..MaxTaskSize

\* The nodes in the order main creates, starts and stops them.
Nodes == <<"Alpha", "Beta", "Gamma">>
Workers == {Nodes[i] : i \in 1..Len(Nodes)}

BlockState == {"FREE", "ALLOCATED", "FRAGMENTED", "RESERVED"}

\* MemoryBlock(i, s): state FREE, owner "NONE".
MemoryBlock(i, s) == [id |-> i, size |-> s, state |-> "FREE", owner |-> "NONE"]

\* No call in progress: the locals are dead.
NoFrame == [taskSize |-> 0, it |-> 0, remainingSize |-> 0, newId |-> 0]

\* VirtualMemorySystem(capacity) and the three WorkerNode constructors.
VMSConstructed ==
    /\ vmsHeap = << MemoryBlock(0, totalCapacity) >>
    /\ systemMutex = "NONE"
    /\ usedMemory = 0
    /\ running = [w \in Workers |-> TRUE]
    /\ wpc = [w \in Workers |-> "new"]
    /\ frame = [w \in Workers |-> NoFrame]

\* A lock_guard that does not lock.
LockNothing(w) == systemMutex' = systemMutex

\* std::lock_guard<std::mutex> lock(systemMutex): the constructor.
Lock(w) ==
    /\ systemMutex = "NONE"
    /\ systemMutex' = w

\* The destructor of the lock_guard at the return of the call.
Unlock(w) == systemMutex' = "NONE"

\* The first block the for loop of allocate accepts (an index), or 0.
FirstFit(h, size) ==
    LET fits == {i \in 1..Len(h) : h[i].state = "FREE" /\ h[i].size >= size}
    IN  IF fits = {} THEN 0 ELSE CHOOSE i \in fits : \A j \in fits : i <= j

\* The next block from position it on that the for loop of deallocate
\* accepts, or 0.
NextOwned(h, it, requester) ==
    LET own == {i \in it..Len(h) : h[i].owner = requester}
    IN  IF own = {} THEN 0 ELSE CHOOSE i \in own : \A j \in own : i <= j

\* workerThread = std::thread(&WorkerNode::process, this);
Start(w) ==
    /\ wpc[w] = "new"
    /\ wpc' = [wpc EXCEPT ![w] = "head"]
    /\ UNCHANGED <<vmsHeap, systemMutex, usedMemory, running, frame>>

\* stop(): main stops the nodes in order, after all were started, and joins
\* each before it stops the next.
Stop(w) ==
    /\ running[w]
    /\ \A v \in Workers : wpc[v] # "new"
    /\ \E i \in 1..Len(Nodes) :
          /\ Nodes[i] = w
          /\ \A j \in 1..(i - 1) : wpc[Nodes[j]] = "done"
    /\ running' = [running EXCEPT ![w] = FALSE]
    /\ UNCHANGED <<vmsHeap, systemMutex, usedMemory, wpc, frame>>

\* while (running) read as true, then taskSize = dist(generator).  running is
\* a plain bool written by main without synchronisation: the read may return
\* true after stop() wrote false.
WhileRunning(w) ==
    /\ wpc[w] = "head"
    /\ \E size \in TaskSizes :
          frame' = [frame EXCEPT ![w] = [NoFrame EXCEPT !.taskSize = size]]
    /\ wpc' = [wpc EXCEPT ![w] = "allocate"]
    /\ UNCHANGED <<vmsHeap, systemMutex, usedMemory, running>>

\* while (running) read as false: process() returns.
WhileStopped(w) ==
    /\ wpc[w] = "head"
    /\ ~running[w]
    /\ wpc' = [wpc EXCEPT ![w] = "done"]
    /\ UNCHANGED <<vmsHeap, systemMutex, usedMemory, running, frame>>

\* allocate: the lock is taken.
AllocateLock(w) ==
    /\ wpc[w] = "allocate"
    /\ Lock(w)
    /\ wpc' = [wpc EXCEPT ![w] = "alloc_for"]
    /\ UNCHANGED <<vmsHeap, usedMemory, running, frame>>

\* allocate: the for loop up to the writes to the accepted block, or up to
\* return false.
AllocateFor(w) ==
    /\ wpc[w] = "alloc_for"
    /\ LET size == frame[w].taskSize
           fit == FirstFit(vmsHeap, size)
       IN  IF fit = 0
           THEN /\ Unlock(w)
                /\ wpc' = [wpc EXCEPT ![w] = "failed"]
                /\ UNCHANGED <<vmsHeap, frame>>
           ELSE /\ vmsHeap' = [vmsHeap EXCEPT ![fit].size = size,
                                              ![fit].state = "ALLOCATED",
                                              ![fit].owner = w]
                /\ IF vmsHeap[fit].size > size
                   THEN /\ frame' = [frame EXCEPT
                                       ![w].it = fit,
                                       ![w].remainingSize = vmsHeap[fit].size - size,
                                       ![w].newId = Len(vmsHeap)]
                        /\ wpc' = [wpc EXCEPT ![w] = "alloc_push"]
                   ELSE /\ frame' = [frame EXCEPT ![w].it = fit]
                        /\ wpc' = [wpc EXCEPT ![w] = "alloc_used"]
                /\ UNCHANGED systemMutex
    /\ UNCHANGED <<usedMemory, running>>

\* heap.push_back(std::make_unique<MemoryBlock>(newId, remainingSize));
AllocatePush(w) ==
    /\ wpc[w] = "alloc_push"
    /\ vmsHeap' = Append(vmsHeap,
                         MemoryBlock(frame[w].newId, frame[w].remainingSize))
    /\ wpc' = [wpc EXCEPT ![w] = "alloc_used"]
    /\ UNCHANGED <<systemMutex, usedMemory, running, frame>>

\* usedMemory += size; return true;   then the sleep of process().
AllocateUsed(w) ==
    /\ wpc[w] = "alloc_used"
    /\ usedMemory' = usedMemory + frame[w].taskSize
    /\ Unlock(w)
    /\ frame' = [frame EXCEPT ![w] = NoFrame]
    /\ wpc' = [wpc EXCEPT ![w] = "sleep"]
    /\ UNCHANGED <<vmsHeap, running>>

\* The else branch of process(): the warning and the sleep, back to while.
AllocateFailed(w) ==
    /\ wpc[w] = "failed"
    /\ frame' = [frame EXCEPT ![w] = NoFrame]
    /\ wpc' = [wpc EXCEPT ![w] = "head"]
    /\ UNCHANGED <<vmsHeap, systemMutex, usedMemory, running>>

\* deallocate: the lock is taken, the for loop starts at heap.begin().
DeallocateLock(w) ==
    /\ wpc[w] = "sleep"
    /\ Lock(w)
    /\ frame' = [frame EXCEPT ![w].it = 1]
    /\ wpc' = [wpc EXCEPT ![w] = "dealloc_for"]
    /\ UNCHANGED <<vmsHeap, usedMemory, running>>

\* deallocate: the for loop up to usedMemory -= block->size of the next
\* block of the requester, or up to the return.
DeallocateFor(w) ==
    /\ wpc[w] = "dealloc_for"
    /\ LET own == NextOwned(vmsHeap, frame[w].it, w)
       IN  IF own = 0
           THEN /\ Unlock(w)
                /\ frame' = [frame EXCEPT ![w] = NoFrame]
                /\ wpc' = [wpc EXCEPT ![w] = "head"]
                /\ UNCHANGED usedMemory
           ELSE /\ usedMemory' = usedMemory - vmsHeap[own].size
                /\ frame' = [frame EXCEPT ![w].it = own]
                /\ wpc' = [wpc EXCEPT ![w] = "dealloc_free"]
                /\ UNCHANGED systemMutex
    /\ UNCHANGED <<vmsHeap, running>>

\* block->state = BlockState::FREE; block->owner = "NONE";   and ++it.
DeallocateFree(w) ==
    /\ wpc[w] = "dealloc_free"
    /\ vmsHeap' = [vmsHeap EXCEPT ![frame[w].it].state = "FREE",
                                  ![frame[w].it].owner = "NONE"]
    /\ frame' = [frame EXCEPT ![w].it = frame[w].it + 1]
    /\ wpc' = [wpc EXCEPT ![w] = "dealloc_for"]
    /\ UNCHANGED <<systemMutex, usedMemory, running>>

NextVMS ==
    \/ \E w \in Workers : Start(w) /\ UNCHANGED vars
    \/ \E w \in Workers : Stop(w) /\ UNCHANGED vars
    \/ \E w \in Workers : WhileRunning(w) /\ UNCHANGED vars
    \/ \E w \in Workers : WhileStopped(w) /\ UNCHANGED vars
    \/ \E w \in Workers : AllocateLock(w) /\ UNCHANGED vars
    \/ \E w \in Workers : AllocateFor(w) /\ UNCHANGED vars
    \/ \E w \in Workers : AllocatePush(w) /\ UNCHANGED vars
    \/ \E w \in Workers : AllocateUsed(w) /\ UNCHANGED vars
    \/ \E w \in Workers : AllocateFailed(w) /\ UNCHANGED vars
    \/ \E w \in Workers : DeallocateLock(w) /\ UNCHANGED vars
    \/ \E w \in Workers : DeallocateFor(w) /\ UNCHANGED vars
    \/ \E w \in Workers : DeallocateFree(w) /\ UNCHANGED vars

-----------------------------------------------------------------------------
(* KryptonVM *)

Init ==
    /\ bytecode = <<>>
    /\ stack = <<>>
    /\ objects = <<>>
    /\ heap = <<>>
    /\ ip = 0
    /\ pc = "idle"
    /\ status = "new"
    /\ error = "none"
    /\ regB = NULL
    /\ regA = NULL
    /\ output = <<>>
    /\ executed = 0
    /\ gcCycles = 0
    /\ firstRun = TRUE
    /\ VMSConstructed

\* bytecode = std::move(program);
LoadProgram(program) ==
    /\ pc = "idle"
    /\ bytecode' = program
    /\ UNCHANGED <<stack, objects, heap, ip, pc, status, error, regB, regA,
                   output, executed, gcCycles, firstRun>>

\* run() is entered: the banner is written, the loop test comes next.
Run ==
    /\ pc = "idle"
    /\ pc' = "loop"
    /\ status' = "running"
    /\ output' = <<>>
    /\ executed' = 0
    /\ gcCycles' = 0
    /\ firstRun' = (status = "new")
    /\ UNCHANGED <<bytecode, stack, objects, heap, ip, error, regB, regA>>

\* while (ip < bytecode.size()) is false: run() returns.
LoopExit ==
    /\ pc = "loop"
    /\ ~(ip < Len(bytecode))
    /\ pc' = "idle"
    /\ status' = "exhausted"
    /\ UNCHANGED <<bytecode, stack, objects, heap, ip, error, regB, regA,
                   output, executed, gcCycles, firstRun>>

\* const auto& inst = bytecode[ip];
Fetching(code) ==
    /\ pc = "loop"
    /\ ip < Len(bytecode)
    /\ bytecode[ip + 1].code = code

\* An exception leaves run(): the caller sees what(); ip is not advanced.
Throw(what) ==
    /\ pc' = "idle"
    /\ status' = "failed"
    /\ error' = what
    /\ UNCHANGED <<bytecode, objects, heap, ip, output, executed, gcCycles,
                   firstRun>>

\* push: stack.push_back(obj); gc.track(obj);  with obj freshly allocated.
Push(obj) ==
    LET a == NewAddress(heap)
    IN  /\ heap' = Allocate(heap, a, obj)
        /\ stack' = Append(stack, a)
        /\ objects' = Track(objects, a)

\* An Advance that tests ip before it increments it.
AdvanceTestFirst ==
    /\ ip' = ip + 1
    /\ executed' = executed + 1
    /\ pc' = IF ip % GCInterval = 0 THEN "mark" ELSE "loop"

\* An Advance that never collects.
AdvanceNoCollect ==
    /\ ip' = ip + 1
    /\ executed' = executed + 1
    /\ pc' = "loop"

\* The position after the switch: ip++, and the collection every fifth ip.
Advance ==
    /\ ip' = ip + 1
    /\ executed' = executed + 1
    /\ pc' = IF (ip + 1) % GCInterval = 0 THEN "mark" ELSE "loop"

ExecPushNum ==
    /\ Fetching("OP_PUSH_NUM")
    /\ LET inst == bytecode[ip + 1]
       IN  IF inst.operand.tag = "double"
           THEN /\ Push(NumberObj(inst.operand.num))
                /\ Advance
                /\ UNCHANGED <<bytecode, status, error, regB, regA, output,
                               gcCycles, firstRun>>
           ELSE /\ Throw("bad_variant_access")
                /\ UNCHANGED <<stack, regB, regA>>

ExecPushStr ==
    /\ Fetching("OP_PUSH_STR")
    /\ LET inst == bytecode[ip + 1]
       IN  IF inst.operand.tag = "string"
           THEN /\ Push(StringObj(inst.operand.str))
                /\ Advance
                /\ UNCHANGED <<bytecode, status, error, regB, regA, output,
                               gcCycles, firstRun>>
           ELSE /\ Throw("bad_variant_access")
                /\ UNCHANGED <<stack, regB, regA>>

\* auto* b = static_cast<NumberObj*>(pop());
ExecAddPopB ==
    /\ Fetching("OP_ADD")
    /\ IF stack = <<>>
       THEN /\ Throw("Stack Underflow")
            /\ UNCHANGED <<stack, regB, regA>>
       ELSE /\ regB' = stack[Len(stack)]
            /\ stack' = SubSeq(stack, 1, Len(stack) - 1)
            /\ pc' = "add_a"
            /\ UNCHANGED <<bytecode, objects, heap, ip, status, error, regA,
                           output, executed, gcCycles, firstRun>>

\* auto* a = static_cast<NumberObj*>(pop());
ExecAddPopA ==
    /\ pc = "add_a"
    /\ IF stack = <<>>
       THEN /\ Throw("Stack Underflow")
            /\ regB' = NULL
            /\ UNCHANGED <<stack, regA>>
       ELSE /\ regA' = stack[Len(stack)]
            /\ stack' = SubSeq(stack, 1, Len(stack) - 1)
            /\ pc' = "add_push"
            /\ UNCHANGED <<bytecode, objects, heap, ip, status, error, regB,
                           output, executed, gcCycles, firstRun>>

\* push(new NumberObj(a->value + b->value));
ExecAddPush ==
    /\ pc = "add_push"
    /\ \E va \in ValueRead(heap, regA), vb \in ValueRead(heap, regB) :
          Push(NumberObj(va + vb))
    /\ Advance
    /\ regA' = NULL
    /\ regB' = NULL
    /\ UNCHANGED <<bytecode, status, error, output, gcCycles, firstRun>>

\* auto* obj = pop(); obj->print();
ExecPrint ==
    /\ Fetching("OP_PRINT")
    /\ IF stack = <<>>
       THEN /\ Throw("Stack Underflow")
            /\ UNCHANGED <<stack, regB, regA>>
       ELSE /\ stack' = SubSeq(stack, 1, Len(stack) - 1)
            /\ output' = Append(output, PrintObj(heap[stack[Len(stack)]]))
            /\ Advance
            /\ UNCHANGED <<bytecode, objects, heap, status, error, regB, regA,
                           gcCycles, firstRun>>

\* An OP_HALT case that ends in `break`: ip++ and the collection test follow,
\* and the loop goes on.
ExecHaltBreaks ==
    /\ Fetching("OP_HALT")
    /\ Advance
    /\ UNCHANGED <<bytecode, stack, objects, heap, status, error, regB, regA,
                   output, gcCycles, firstRun>>

\* case OP_HALT: return;   (before ip++ and before the collection test)
ExecHalt ==
    /\ Fetching("OP_HALT")
    /\ pc' = "idle"
    /\ status' = "halted"
    /\ UNCHANGED <<bytecode, stack, objects, heap, ip, error, regB, regA,
                   output, executed, gcCycles, firstRun>>

\* default: break;   the switch has no case for these opcodes.
DefaultCodes == {"OP_SUB", "OP_MUL", "OP_DIV", "OP_JUMP", "OP_JUMP_IF_FALSE"}

\* A switch with a case for OP_JUMP that assigns the operand to ip.
ExecDefaultJumping ==
    /\ \E code \in DefaultCodes : Fetching(code)
    /\ IF bytecode[ip + 1].code = "OP_JUMP" /\ bytecode[ip + 1].operand.tag = "int"
       THEN /\ ip' = bytecode[ip + 1].operand.num
            /\ executed' = executed + 1
            /\ pc' = "loop"
       ELSE Advance
    /\ UNCHANGED <<bytecode, stack, objects, heap, status, error, regB, regA,
                   output, gcCycles, firstRun>>

ExecDefault ==
    /\ \E code \in DefaultCodes : Fetching(code)
    /\ Advance
    /\ UNCHANGED <<bytecode, stack, objects, heap, status, error, regB, regA,
                   output, gcCycles, firstRun>>

\* gc.collect(stack), mark phase.
CollectMark ==
    /\ pc = "mark"
    /\ heap' = MarkRoots(stack, heap)
    /\ pc' = "sweep"
    /\ UNCHANGED <<bytecode, stack, objects, ip, status, error, regB, regA,
                   output, executed, gcCycles, firstRun>>

\* gc.collect(stack), sweep phase and the log line.
CollectSweep ==
    /\ pc = "sweep"
    /\ LET swept == SweepFrom(objects, 1, heap)
       IN  /\ objects' = swept.objects
           /\ heap' = swept.heap
    /\ gcCycles' = gcCycles + 1
    /\ pc' = "loop"
    /\ UNCHANGED <<bytecode, stack, ip, status, error, regB, regA, output,
                   executed, firstRun>>

\* The steps of the Krypton VM; the memory system is a separate program.
Next ==
    \/ \E program \in Programs : LoadProgram(program) /\ UNCHANGED vmsVars
    \/ Run /\ UNCHANGED vmsVars
    \/ LoopExit /\ UNCHANGED vmsVars
    \/ ExecPushNum /\ UNCHANGED vmsVars
    \/ ExecPushStr /\ UNCHANGED vmsVars
    \/ ExecAddPopB /\ UNCHANGED vmsVars
    \/ ExecAddPopA /\ UNCHANGED vmsVars
    \/ ExecAddPush /\ UNCHANGED vmsVars
    \/ ExecPrint /\ UNCHANGED vmsVars
    \/ ExecHalt /\ UNCHANGED vmsVars
    \/ ExecDefault /\ UNCHANGED vmsVars
    \/ CollectMark /\ UNCHANGED vmsVars
    \/ CollectSweep /\ UNCHANGED vmsVars

Spec == Init /\ [][Next]_vars

-----------------------------------------------------------------------------
(* Vocabulary of the properties *)

Range(seq) == {seq[i] : i \in 1..Len(seq)}

\* The number or the text of an object, without its mark bit.
Payload(obj) == [type |-> obj.type, num |-> obj.num, str |-> obj.str]

\* A collection is in progress (between the call of collect and its return).
Collecting == pc \in {"mark", "sweep"}

\* The control is back in the loop right after a collection of this run():
\* ip changes only in Advance, which enters the collection at every multiple
\* of GCInterval, and gcCycles is 0 when run() is entered.
JustCollected == pc = "loop" /\ ip % GCInterval = 0 /\ gcCycles >= 1

-----------------------------------------------------------------------------
(* C1 *)

\* C1: while a collection runs (mark step, sweep step) every Value that is on
\* the operand stack stays allocated, stays in the tracker and keeps its
\* payload; the stack is the one collect was invoked with.
C1_RootsSurviveCollection ==
    [][Collecting =>
          /\ stack' = stack
          /\ \A a \in Range(stack) :
                /\ a \in DOMAIN heap'
                /\ a \in Range(objects')
                /\ Payload(heap'[a]) = Payload(heap[a])]_vars

\* A collection has just returned that kept roots and reclaimed garbage
\* (CadenceProgram at ip = 5: stack <<4>>, the operands 2, 2 and "s" freed).
C1_Witness ==
    /\ JustCollected
    /\ stack # <<>>
    /\ executed = GCInterval
    /\ Len(objects) < executed - 1

-----------------------------------------------------------------------------
(* C2 *)

\* C2: right after a collection the tracker holds exactly the Values that are
\* on the operand stack (the stack collect was invoked with: neither phase
\* changes it), and every other Value has been destroyed.
C2_TrackedEqualsRoots ==
    JustCollected =>
        /\ Range(objects) = Range(stack)
        /\ DOMAIN heap = Range(stack)

\* The second collection of a run has just returned, after which a root is
\* tracked; the instructions before it left garbage (CadenceProgram, ip = 10).
C2_Witness ==
    /\ JustCollected
    /\ gcCycles = 2
    /\ stack # <<>>
    /\ bytecode = CadenceProgram

-----------------------------------------------------------------------------
(* C3 *)

-----------------------------------------------------------------------------
(* GarbageCollector on its own: collect called again and again *)

\* Injective sequences over a set: the orders a vector can hold its elements in.
Orders(S) == {f \in [1..Cardinality(S) -> S] : \A i, j \in DOMAIN f :
                                                    i # j => f[i] # f[j]}

\* Some objects are live, each with its mark bit false (as the constructors
\* and every finished sweep leave it); some of them are tracked, in any order;
\* the root set is any short sequence of live addresses and null pointers,
\* repetitions and untracked objects included.
InitGC ==
    /\ \E live \in SUBSET (1..MaxObjs) :
          /\ heap = [a \in live |-> IF a % 2 = 0 THEN StringObj("s")
                                    ELSE NumberObj(a)]
          /\ \E tracked \in SUBSET live : objects \in Orders(tracked)
          /\ stack \in UNION {[1..n -> live \cup {NULL}] : n \in 0..MaxRoots}
    /\ bytecode = <<>>
    /\ ip = 0
    /\ pc = "gc"
    /\ status = "new"
    /\ error = "none"
    /\ regB = NULL
    /\ regA = NULL
    /\ output = <<>>
    /\ executed = 0
    /\ gcCycles = 0
    /\ firstRun = TRUE
    /\ VMSConstructed

\* gc.collect(roots), the whole call, with the roots held in `stack`.
GCCollect ==
    /\ pc = "gc"
    /\ gcCycles < MaxCollects
    /\ LET collected == Collect(stack, objects, heap)
       IN  /\ objects' = collected.objects
           /\ heap' = collected.heap
    /\ gcCycles' = gcCycles + 1
    /\ UNCHANGED <<bytecode, stack, ip, pc, status, error, regB, regA, output,
                   executed, firstRun>>

NextGC == GCCollect /\ UNCHANGED vmsVars

SpecGC == InitGC /\ [][NextGC]_vars

-----------------------------------------------------------------------------
(* C4 *)

\* C4: a collect that follows another collect with the same roots and no
\* allocation in between changes neither the tracked sequence nor any object
\* (mark bits included) nor the set of live objects.
C4_CollectIdempotent ==
    [][gcCycles >= 1 => objects' = objects /\ heap' = heap]_vars

\* A second collect has run, with survivors in the tracker and with a root
\* that is not tracked (its mark bit stays set: no sweep visits it).
C4_Witness ==
    /\ gcCycles = 2
    /\ objects # <<>>
    /\ \E a \in Range(stack) \ Range(objects) : a # NULL /\ heap[a].marked

-----------------------------------------------------------------------------
(* C5 *)

\* The arithmetic the specification gives the opcodes: the numbers a program
\* prints, or ok = FALSE when it is not well formed (an opcode outside the
\* arithmetic ones, a missing operand, a division that is not exact in the
\* integers or by a divisor that is not positive).
ArithmeticCodes == {"OP_PUSH_NUM", "OP_ADD", "OP_SUB", "OP_MUL", "OP_DIV",
                    "OP_PRINT", "OP_HALT"}

\* a op b, or "undefined" where this model cannot state the quotient.
Defined(code, a, b) == code = "OP_DIV" => (b > 0 /\ a >= 0 /\ a % b = 0)
Arithmetic(code, a, b) == CASE code = "OP_ADD" -> a + b
                            [] code = "OP_SUB" -> a - b
                            [] code = "OP_MUL" -> a * b
                            [] code = "OP_DIV" -> a \div b

RECURSIVE Expected(_, _, _, _)
Expected(prog, i, stk, out) ==
    IF i > Len(prog) THEN [ok |-> TRUE, out |-> out]
    ELSE LET c == prog[i].code
             n == Len(stk)
             failed == [ok |-> FALSE, out |-> out]
         IN  CASE c = "OP_PUSH_NUM" ->
                    IF prog[i].operand.tag # "double" THEN failed
                    ELSE Expected(prog, i + 1,
                                  Append(stk, prog[i].operand.num), out)
               [] c \in {"OP_ADD", "OP_SUB", "OP_MUL", "OP_DIV"} ->
                    IF n < 2 \/ ~Defined(c, stk[n - 1], stk[n]) THEN failed
                    ELSE Expected(prog, i + 1,
                                  Append(SubSeq(stk, 1, n - 2),
                                         Arithmetic(c, stk[n - 1], stk[n])),
                                  out)
               [] c = "OP_PRINT" ->
                    IF n < 1 THEN failed
                    ELSE Expected(prog, i + 1, SubSeq(stk, 1, n - 1),
                                  Append(out, stk[n]))
               [] c = "OP_HALT" -> [ok |-> TRUE, out |-> out]
               [] OTHER -> failed

WellFormedArithmetic(prog) ==
    /\ \A i \in 1..Len(prog) : prog[i].code \in ArithmeticCodes
    /\ Expected(prog, 1, <<>>, <<>>).ok

\* The decimal text of an integer.
NumberText(n) == IF n < 0 THEN <<"-">> \o Digits(0 - n) ELSE Digits(n)

\* C5: while a fresh VM runs a well-formed arithmetic program, the lines
\* printed so far are the values the instructions executed so far print
\* under the arithmetic of the specification.
C5_PrintsExpressionValue ==
    (pc = "loop" /\ firstRun /\ WellFormedArithmetic(bytecode)) =>
        LET want == Expected(SubSeq(bytecode, 1, ip), 1, <<>>, <<>>).out
        IN  output = [k \in 1..Len(want) |-> NumberText(want[k])]

-----------------------------------------------------------------------------
(* C6 *)

\* Values an instruction pops.
Pops(code) == CASE code \in {"OP_ADD", "OP_SUB", "OP_MUL", "OP_DIV"} -> 2
                [] code \in {"OP_PRINT", "OP_JUMP_IF_FALSE"} -> 1
                [] OTHER -> 0

StackUnderflow == status' = "failed" /\ error' = "Stack Underflow"

\* C6: an instruction fetched with fewer Values on the stack than it pops
\* ends the run with Stack Underflow (ADD, after its first pop, at its
\* second), and the instruction after it is not reached.
C6_PopsUnderflow ==
    [][/\ (pc = "loop" /\ ip < Len(bytecode)
              /\ Len(stack) < Pops(bytecode[ip + 1].code))
           => (StackUnderflow \/ (pc' = "add_a" /\ stack' = <<>>))
       /\ (pc = "add_a" /\ stack = <<>>) => StackUnderflow]_vars

-----------------------------------------------------------------------------
(* C7 *)

\* C7: the instruction pointer is an index of the loaded program or its length.
C7_IpInProgram == 0 <= ip /\ ip <= Len(bytecode)

-----------------------------------------------------------------------------
(* C8 *)

\* C8: loadProgram installs the program it is given and sets ip to 0.
C8_LoadResetsIp ==
    [][\A program \in Programs :
          LoadProgram(program) => bytecode' = program /\ ip' = 0]_vars

-----------------------------------------------------------------------------
(* C9 *)

\* Collections begun in this run(): the finished ones and the one in progress.
CollectionsBegun == gcCycles + (IF Collecting THEN 1 ELSE 0)

\* C9 as stated, HALT counted among the executed instructions: in the first
\* run() of a VM, after k instructions there have been k div 5 collections.
C9_CollectAfterEveryFifthInstruction ==
    firstRun =>
        CollectionsBegun =
            (executed + (IF status = "halted" THEN 1 ELSE 0)) \div GCInterval

\* C9, amended: in the first run() of a VM, after k instructions other than
\* HALT have completed there have been exactly k div 5 collections, the last
\* of them begun before instruction k + 1 is fetched; HALT returns without one.
C9_CollectAfterEveryFifthAdvance ==
    firstRun => CollectionsBegun = executed \div GCInterval

\* The second collection of a first run() has returned.
C9_Witness ==
    /\ firstRun
    /\ JustCollected
    /\ executed = 2 * GCInterval
    /\ gcCycles = 2

-----------------------------------------------------------------------------
(* C10 *)

\* C10: once a run() has ended with an exception, nothing that follows on the
\* same VM changes ip, the operand stack or the tracked heap.
C10_StoppedAfterError ==
    [][error # "none" =>
          ip' = ip /\ stack' = stack /\ objects' = objects /\ heap' = heap]_vars

-----------------------------------------------------------------------------
(* C11 *)

\* The instruction about to be executed.
Fetched == bytecode[ip + 1]
AtFetch == pc = "loop" /\ ip < Len(bytecode)

\* The jump target an instruction carries.
Target(inst) == inst.operand.num

\* C11: a JUMP whose target lies beyond the program length ends the run with
\* InvalidJumpTarget at that instruction; nothing after it is executed.
C11_JumpBeyondFails ==
    [][(AtFetch /\ Fetched.code = "OP_JUMP" /\ Target(Fetched) > Len(bytecode))
          => (status' = "failed" /\ error' = "InvalidJumpTarget" /\ ip' = ip)]_vars

-----------------------------------------------------------------------------
(* C12 *)

\* The object at depth d of the operand stack (1: the top).
StackObj(d) == heap[stack[Len(stack) + 1 - d]]

\* C12: DIV with Number(0) on top of the stack ends the run with
\* DivisionByZero; no Value is pushed and ip does not advance.
C12_DivisionByZeroFails ==
    [][(AtFetch /\ Fetched.code = "OP_DIV" /\ Len(stack) >= 2
            /\ StackObj(1).type = "NUMBER" /\ StackObj(1).num = 0
            /\ StackObj(2).type = "NUMBER")
          => (status' = "failed" /\ error' = "DivisionByZero"
                /\ objects' = objects /\ ip' = ip)]_vars

-----------------------------------------------------------------------------
(* C13 *)

TypeMismatch ==
    status' = "failed" /\ error' = "TypeMismatch" /\ objects' = objects /\ ip' = ip

\* C13: ADD, SUB, MUL and DIV with a String among their two operands end the
\* run with TypeMismatch and push nothing.  (ADD pops in two steps: the
\* failure may come at either pop or, at the latest, in place of the push.)
C13_StringOperandFails ==
    [][/\ (AtFetch /\ Fetched.code \in {"OP_SUB", "OP_MUL", "OP_DIV"}
              /\ Len(stack) >= 2
              /\ "STRING" \in {StackObj(1).type, StackObj(2).type})
           => TypeMismatch
       /\ (pc = "add_push"
              /\ "STRING" \in {heap[regA].type, heap[regB].type})
           => TypeMismatch]_vars

-----------------------------------------------------------------------------
(* C14 *)

\* The HALT instruction is executed in this step.
HaltStep == AtFetch /\ Fetched.code = "OP_HALT" /\ status' = "halted"

\* C14: when the HALT of ScenarioProgram executes in the first run() of a VM,
\* the lines written are "Hasil: " in double quotes and 60, ip is 8, the
\* index of HALT, and the operand stack is empty.
C14_ScenarioOutput ==
    [][(firstRun /\ bytecode = ScenarioProgram /\ HaltStep)
          => /\ output' = << <<"\"", "Hasil: ", "\"">>, <<"6", "0">> >>
             /\ ip' = 8
             /\ stack' = <<>>]_vars

-----------------------------------------------------------------------------
(* C15 *)

\* C15: outside the sweep phase of a collection (that is, whenever an
\* instruction is fetched, between its steps, outside run() and when collect
\* is entered) no tracked Value has its mark bit set; a set mark bit exists
\* only between the mark phase and the end of the sweep phase.
C15_MarksClearOutsideSweep ==
    pc # "sweep" => \A a \in Range(objects) : ~heap[a].marked

\* A sweep has just ended that found marked Values: two or more survivors,
\* all of them reset.
C15_Witness ==
    /\ JustCollected
    /\ Len(objects) >= 2
    /\ \A a \in Range(objects) : ~heap[a].marked

\* Inside a collection, after its mark phase, a tracked Value is marked.
C15_MarkedInsideCollect ==
    pc = "sweep" /\ \E a \in Range(objects) : heap[a].marked

-----------------------------------------------------------------------------
(* C16 *)

\* A jump target that is an index of the loaded program.
ValidTarget(inst) ==
    inst.operand.tag = "int" /\ 0 <= Target(inst) /\ Target(inst) < Len(bytecode)

\* Number(0) is falsy (the source has no Boolean object).
Falsy(obj) == obj.type = "NUMBER" /\ obj.num = 0

\* C16: JUMP with a valid target sets ip to the target and leaves the stack
\* alone; JUMP_IF_FALSE pops one Value and sets ip to the target when the
\* Value is falsy and to ip + 1 otherwise.
C16_JumpsSetIp ==
    [][/\ (AtFetch /\ Fetched.code = "OP_JUMP" /\ ValidTarget(Fetched))
           => (ip' = Target(Fetched) /\ stack' = stack)
       /\ (AtFetch /\ Fetched.code = "OP_JUMP_IF_FALSE" /\ ValidTarget(Fetched)
              /\ stack # <<>>)
           => /\ stack' = SubSeq(stack, 1, Len(stack) - 1)
              /\ ip' = IF Falsy(StackObj(1)) THEN Target(Fetched)
                       ELSE ip + 1]_vars

\* C16, the half about JUMP_IF_FALSE alone.
C16_JumpIfFalsePops ==
    [][(AtFetch /\ Fetched.code = "OP_JUMP_IF_FALSE" /\ ValidTarget(Fetched)
            /\ stack # <<>>)
          => /\ stack' = SubSeq(stack, 1, Len(stack) - 1)
             /\ ip' = IF Falsy(StackObj(1)) THEN Target(Fetched)
                      ELSE ip + 1]_vars

-----------------------------------------------------------------------------
(* C17 *)

\* What the VM owns.
VMState == <<bytecode, ip, stack, objects, heap>>

\* C17: a step taken with HALT fetched returns from run() with the VM state
\* unchanged, ip still the index of HALT, and no collection; entering run()
\* changes no VM state either, so a run() entered after a HALT, with the same
\* program loaded, fetches that HALT again and ends the same way.
C17_HaltIsTerminal ==
    [][/\ (AtFetch /\ Fetched.code = "OP_HALT")
           => /\ pc' = "idle"
              /\ status' = "halted"
              /\ VMState' = VMState
              /\ gcCycles' = gcCycles
              /\ executed' = executed
       /\ (pc # "idle" /\ status' = "halted")
           => (ip' < Len(bytecode') /\ bytecode'[ip' + 1].code = "OP_HALT")
       /\ (pc = "idle" /\ pc' = "loop") => VMState' = VMState]_vars

\* A later run() has ended at a HALT without completing any other
\* instruction, with Values on the stack and in the tracker.
C17_Witness ==
    /\ pc = "idle"
    /\ status = "halted"
    /\ ~firstRun
    /\ executed = 0
    /\ stack # <<>>

-----------------------------------------------------------------------------
(* C18 *)

\* max(0, program.length - ipAtEntry): ip at the entry of the current run()
\* is ip - executed, as every completed instruction adds one to both.
RunBudget ==
    LET left == Len(bytecode) - (ip - executed)
    IN  IF left > 0 THEN left ELSE 0

\* A variant of the loop: five steps at most lead from one fetch to the next
\* (pop, pop, push, mark, sweep).
Rank == CASE pc = "mark" -> 4
          [] pc = "sweep" -> 3
          [] pc = "loop" -> 2
          [] pc = "add_a" -> 1
          [] OTHER -> 0
Variant == 5 * (Len(bytecode) - ip) + Rank

\* C18: no step decreases ip; inside run() a completed instruction adds
\* exactly one to ip, the instructions executed (a HALT included) never
\* exceed max(0, program.length - ip at entry), and every step that does not
\* leave run() decreases the variant: run() terminates.
C18_RunTerminates ==
    [][/\ ip' >= ip
       /\ (pc # "idle" /\ executed' # executed)
           => (executed' = executed + 1 /\ ip' = ip + 1)
       /\ (pc # "idle" /\ ip' # ip) => executed' = executed + 1
       /\ pc # "idle" => executed' <= RunBudget
       /\ HaltStep => executed + 1 <= RunBudget
       /\ (pc # "idle" /\ pc' # "idle") => Variant' < Variant
      ]_vars

\* A run() entered with ip > 0 has run to the end of its program.
C18_Witness ==
    /\ pc = "idle"
    /\ status = "exhausted"
    /\ ~firstRun
    /\ executed >= 2
    /\ ip = Len(bytecode)
    /\ ip > executed

-----------------------------------------------------------------------------
(* C19 *)

\* The tracked Values that are not on the stack.
Orphans == Range(objects) \ Range(stack)

\* C19: in a first run(), between two instructions, at most 8 tracked Values
\* are not on the stack: a collection leaves none, and each of the at most
\* four instructions since the last one drops at most two (OP_ADD).
C19_FewOrphans ==
    (firstRun /\ pc = "loop") => Cardinality(Orphans) <= 2 * (GCInterval - 1)

\* The bound is met: four OP_ADD since the collection at ip = 5.
C19_Witness ==
    /\ firstRun
    /\ pc = "loop"
    /\ bytecode = OrphanProgram
    /\ ip = 9
    /\ Cardinality(Orphans) = 8

-----------------------------------------------------------------------------
(* C20 *)

Injective(seq) ==
    \A i, j \in 1..Len(seq) : seq[i] = seq[j] => i = j

\* C20: no Value appears more than once in the tracker, and none more than
\* once on the stack.
C20_NoDuplicates ==
    /\ Injective(objects)
    /\ Injective(stack)

\* An address freed by a collection has been handed out again, and the
\* Value there is tracked and on the stack beside an older one.
C20_Witness ==
    /\ gcCycles >= 1
    /\ Len(stack) >= 2
    /\ Len(objects) >= 3
    /\ \E i, j \in 1..Len(objects) : i < j /\ objects[i] > objects[j]

-----------------------------------------------------------------------------
(* C21 *)

\* The memory system with its three workers; the Krypton VM stays as
\* constructed.
SpecVMS == Init /\ [][NextVMS]_<<vars, vmsVars>>

\* The sum of the sizes of the blocks of h whose state is in states.
RECURSIVE SumSizes(_, _)
SumSizes(h, states) ==
    IF h = <<>> THEN 0
    ELSE (IF Head(h).state \in states THEN Head(h).size ELSE 0)
         + SumSizes(Tail(h), states)

\* C21: in every state that an interleaving of the allocate and deallocate
\* calls of Alpha, Beta and Gamma passes through (between the critical
\* sections, systemMutex not held), the sizes of all blocks sum to
\* totalCapacity, usedMemory is the sum of the sizes of the ALLOCATED blocks,
\* and usedMemory does not exceed totalCapacity.
C21_AllocatorAccounting ==
    systemMutex = "NONE"
        => /\ SumSizes(vmsHeap, BlockState) = totalCapacity
           /\ usedMemory = SumSizes(vmsHeap, {"ALLOCATED"})
           /\ usedMemory <= totalCapacity

\* Two workers hold blocks and the third was just refused although enough
\* memory is free: the free memory is split into blocks that are too small.
C21_Witness ==
    /\ systemMutex = "NONE"
    /\ \E w \in Workers :
          /\ wpc[w] = "failed"
          /\ totalCapacity - usedMemory >= frame[w].taskSize
          /\ \A v \in Workers \ {w} : wpc[v] = "sleep"
    /\ Len(vmsHeap) >= 3

=============================================================================
